---------------------------- MODULE Spec2Model ----------------------------
(***************************************************************************)
(* Model of lsif-os: the per-file Analyzer (src/analyzer/analyzer.rs), the *)
(* LsifDataCache (src/analyzer/lsif_data_cache.rs) and the Indexer         *)
(* (src/indexer/indexer.rs) that drains the two channels and emits the     *)
(* LSIF graph through an Emitter.                                          *)
(*                                                                         *)
(* A tree-sitter Range is modelled by its byte offsets; its points are a   *)
(* function of the offsets for a fixed file content.  Option<T> is a       *)
(* sequence of length at most one; a String is the sequence of its parts.  *)
(***************************************************************************)
EXTENDS Integers, Sequences, FiniteSets, TLC

\* ------------------------------------------------------------------ bounds
\* Length in bytes of every source file of the project.
MaxByte == 2
\* Query matches handled by all analyzer workers together in a full run.
MaxMatches == 3
\* Query matches handled by the worker of one file analysed on its own.
MaxFileMatches == 5

\* ------------------------------------------------------------------ inputs
FileA == <<"p", "a.ts">>
FileB == <<"p", "b.ts">>
FileC == <<"p", "c.ts">>
Files == {FileA, FileB, FileC}

\* The bytes of a file: a.ts is "xyxy..", b.ts and c.ts are "xxxx..".
FileContent(f) ==
    [p \in 0..(MaxByte - 1) |-> IF f = FileA /\ p % 2 = 1 THEN "y" ELSE "x"]

Names == {<<"x">>, <<"y">>}

\* Identifier nodes are one byte long; scope nodes are any non-empty span.
Positions == 0..(MaxByte - 1)
NodeRange(p) == [start_byte |-> p, end_byte |-> p + 1]
ScopeRanges ==
    {[start_byte |-> s, end_byte |-> e] : s \in 0..MaxByte, e \in 0..MaxByte} \
    {r \in [start_byte : 0..MaxByte, end_byte : 0..MaxByte] : r.start_byte >= r.end_byte}

\* ------------------------------------------------------------ Option, Vec
None == <<>>
Some(v) == <<v>>
IsSome(o) == Len(o) = 1
Unwrap(o) == o[1]

SetMax(S) == CHOOSE m \in S : \A n \in S : n <= m
SetMin(S) == CHOOSE m \in S : \A n \in S : m <= n

\* iter().find(pred) and iter().rev().find(pred) over the indices that satisfy pred
FindFirst(l, idx) == IF idx = {} THEN None ELSE Some(l[SetMin(idx)])
FindLast(l, idx) == IF idx = {} THEN None ELSE Some(l[SetMax(idx)])

\* ----------------------------------------------------------------- types
\* the Range the analyzer falls back to when a scoped definition has no scope
ZeroRange == [start_byte |-> 0, end_byte |-> 0]

\* enum DefinitionKind; the scope field is meaningful for Scoped only
DefinitionKindExported == [tag |-> "Exported", scope |-> ZeroRange]
DefinitionKindScoped(r) == [tag |-> "Scoped", scope |-> r]

\* impl Contain for Range
Contain(self, o) == self.end_byte >= o.end_byte /\ self.start_byte <= o.start_byte

Location(f, r) == [file_path |-> f, range |-> r]

\* Location::file_name: the final component of the path
file_name(loc) == loc.file_path[Len(loc.file_path)]

VARIABLES
    \* ---- Analyzer, one per file
    apc,            \* position of the worker of each file in run_analysis
    nmatched,       \* number of query matches the worker has handled
    last_comment,   \* Analyzer.last_comment
    defs,           \* Analyzer.defs : name -> Vec<Definition>
    refs,           \* Analyzer.refs
    scopes,         \* Analyzer.scopes
    \* ---- channels
    def_chan,       \* definitions sent and not yet received
    ref_chan,       \* references sent and not yet received
    \* ---- Indexer
    ipc,            \* position of the orchestrator in Indexer::index
    project_id,     \* Indexer.project_id
    documents,      \* LsifDataCache.documents
    ranges,         \* LsifDataCache.ranges
    def_infos,      \* LsifDataCache.def_infos
    exported_defs,  \* LsifDataCache.exported_defs
    \* ---- Emitter
    id,             \* the emitter's id counter
    out,            \* the records handed to the sink, in order
    \* ---- FileEmitter and its sink thread
    entry_chan,     \* entries sent to the sink thread and not yet received
    entry_open,     \* the FileEmitter still holds the entry sender
    written,        \* the entries written to the BufWriter, in order
    flushed,        \* buf_writer.flush() has returned
    signal,         \* completion signals sent and not yet received
    spc,            \* position of the sink thread in FileEmitter::run
    mpc,            \* position of main around Indexer::index
    \* ---- history
    ndocs,          \* emit_documents: paths of the walk already handled
    linked,         \* link_items_to_definitions: the order def_infos was visited in
    contained,      \* emit_contains: the order documents was visited in
    sent_defs,      \* every definition sent so far
    ref_count,      \* references sent to and received from the reference channel
    last_op,        \* the last operation of the indexer and what it saw
    \* ---- the command line and the project
    opts,           \* Opts: project_root and output
    walk,           \* the files of the language under project_root, in walk order
    first_run,      \* what an earlier run on the same project produced, if any
    query           \* the query source of the language and its compiled Query

avars == <<apc, nmatched, last_comment, defs, refs, scopes>>
cvars == <<def_chan, ref_chan>>
cachevars == <<documents, ranges, def_infos, exported_defs>>
evars == <<id, out>>
ivars == <<ipc, project_id, ndocs, linked, contained, last_op>>
svars == <<entry_chan, entry_open, written, flushed, signal, spc, mpc>>
runvars == <<opts, walk, first_run, query>>
vars == <<avars, cvars, cachevars, evars, ivars, svars, runvars, sent_defs, ref_count, runvars>>

\* Indexer::file_paths: the walk of the project root, in walk order
file_paths == walk

\* the files of the project
Project == {file_paths[i] : i \in DOMAIN file_paths}


\* ============================================================== Analyzer
\* Analyzer::node_text_of: the bytes of the node
node_text_of(f, r) ==
    [i \in 1..(r.end_byte - r.start_byte) |-> FileContent(f)[r.start_byte + i - 1]]

\* Analyzer::location_of
location_of(f, r) == Location(f, r)

\* Analyzer::line_of: kind of the node and the text from the node's start up
\* to the next newline; unwrap_or(start_byte) when no newline follows
line_of(f, r) ==
    LET start_byte == r.start_byte
        nl == {i \in start_byte..(MaxByte - 1) : FileContent(f)[i] = "\n"}
        end_byte == IF nl = {} THEN start_byte ELSE SetMin(nl)
    IN  <<"identifier", " ">> \o
        node_text_of(f, [start_byte |-> start_byte, end_byte |-> end_byte])

find_first_enclosing_scope(scs, r) ==
    FindFirst(scs, {i \in 1..Len(scs) : Contain(scs[i], r)})

\* Analyzer::find_enclosing_scope: scopes.iter().rev().find_map(contains)
find_enclosing_scope(scs, r) ==
    FindLast(scs, {i \in 1..Len(scs) : Contain(scs[i], r)})

\* Analyzer::definition_from (the pending comment is cleared by the caller)
definition_from(f, r, scoped, scs, pending) ==
    LET enclosing == find_enclosing_scope(scs, r)
        kind == IF scoped
                THEN DefinitionKindScoped(IF IsSome(enclosing) THEN Unwrap(enclosing)
                                                               ELSE ZeroRange)
                ELSE DefinitionKindExported
    IN  [location  |-> location_of(f, r),
         node_name |-> node_text_of(f, r),
         comment   |-> Some(IF IsSome(pending) THEN Unwrap(pending) ELSE line_of(f, r)),
         kind      |-> kind]

\* the closure of try_find_def_of and reference_from: is d visible at range r
is_in_scope_or_unscoped(d, r) ==
    IF d.kind.tag = "Exported" \/ d.kind.scope = ZeroRange
    THEN TRUE
    ELSE Contain(d.kind.scope, r)

is_in_scope(d, r) ==
    IF d.kind.tag = "Exported" THEN TRUE ELSE Contain(d.kind.scope, r)

\* Analyzer::reference_from
reference_from(f, r, dfs) ==
    LET name == node_text_of(f, r)
        l == dfs[name]
    IN  [location  |-> location_of(f, r),
         node_name |-> name,
         def       |-> FindFirst(l, {i \in 1..Len(l) :
                                      l[i].location.range # r /\ is_in_scope(l[i], r)})]

\* Analyzer::try_find_def_of: r.def is assigned whatever it held before
try_find_def_of_ignoring_scope(dfs, r) ==
    LET l == dfs[r.node_name]
    IN  [r EXCEPT !.def = FindLast(l, {i \in 1..Len(l) : l[i].node_name = r.node_name})]

try_find_def_of(dfs, r) ==
    LET l == dfs[r.node_name]
    IN  [r EXCEPT !.def =
            FindLast(l, {i \in 1..Len(l) :
                          l[i].node_name = r.node_name /\ is_in_scope(l[i], r.location.range)})]

\* Reference::has_def
has_def(r) == IsSome(r.def)

\* Analyzer::try_link_references
try_link_references(dfs, rs) ==
    [i \in 1..Len(rs) |-> IF ~has_def(rs[i]) THEN try_find_def_of(dfs, rs[i]) ELSE rs[i]]

\* Analyzer::comment_from: the text of the n-th match of the file, a comment node
comment_from(f, n) == <<"/", "/", ToString(n)>>

TotalMatched == nmatched[FileA] + nmatched[FileB] + nmatched[FileC]

\* the worker of f is inside the match loop of run_analysis and the query
\* cursor yields one more match
HasMatch(f, bound) ==
    /\ apc[f] = "matching"
    /\ TotalMatched < bound

\* run_analysis, AnalysisData::Scope => cache_scope
MatchScope(f, bound) ==
    /\ HasMatch(f, bound)
    /\ \E r \in ScopeRanges :
          scopes' = [scopes EXCEPT ![f] = Append(@, r)]
    /\ nmatched' = [nmatched EXCEPT ![f] = @ + 1]
    /\ UNCHANGED <<apc, last_comment, defs, refs, cvars, cachevars, evars, ivars, svars, runvars, sent_defs, ref_count>>

\* run_analysis, AnalysisData::Comment => cache_comment
MatchComment(f, bound) ==
    /\ HasMatch(f, bound)
    /\ last_comment' = [last_comment EXCEPT ![f] = Some(comment_from(f, nmatched[f] + 1))]
    /\ nmatched' = [nmatched EXCEPT ![f] = @ + 1]
    /\ UNCHANGED <<apc, defs, refs, scopes, cvars, cachevars, evars, ivars, svars, runvars, sent_defs, ref_count>>

MatchDefinitionKeepingComment(f, bound) ==
    /\ HasMatch(f, bound)
    /\ \E p \in Positions, scoped \in BOOLEAN :
          LET def == definition_from(f, NodeRange(p), scoped, scopes[f], last_comment[f])
          IN  /\ defs' = [defs EXCEPT ![f][def.node_name] = Append(@, def)]
              /\ def_chan' = Append(def_chan, def)
              /\ sent_defs' = Append(sent_defs, def)
    /\ nmatched' = [nmatched EXCEPT ![f] = @ + 1]
    /\ UNCHANGED <<apc, last_comment, refs, scopes, ref_chan, cachevars, evars, ivars, svars, runvars, ref_count>>

\* run_analysis, AnalysisData::Definition => handle_definition:
\* definition_from (use_last_comment), cache_definition, def_sender.send
MatchDefinition(f, bound) ==
    /\ HasMatch(f, bound)
    /\ \E p \in Positions, scoped \in BOOLEAN :
          LET def == definition_from(f, NodeRange(p), scoped, scopes[f], last_comment[f])
          IN  /\ defs' = [defs EXCEPT ![f][def.node_name] = Append(@, def)]
              /\ def_chan' = Append(def_chan, def)
              /\ sent_defs' = Append(sent_defs, def)
    /\ last_comment' = [last_comment EXCEPT ![f] = None]
    /\ nmatched' = [nmatched EXCEPT ![f] = @ + 1]
    /\ UNCHANGED <<apc, refs, scopes, ref_chan, cachevars, evars, ivars, svars, runvars, ref_count>>

\* run_analysis, AnalysisData::Reference => reference_from, try_find_def_of, refs.push
MatchReference(f, bound) ==
    /\ HasMatch(f, bound)
    /\ \E p \in Positions :
          LET it == reference_from(f, NodeRange(p), defs[f])
          IN  refs' = [refs EXCEPT ![f] = Append(@, try_find_def_of(defs[f], it))]
    /\ nmatched' = [nmatched EXCEPT ![f] = @ + 1]
    /\ UNCHANGED <<apc, last_comment, defs, scopes, cvars, cachevars, evars, ivars, svars, runvars, sent_defs, ref_count>>

\* run_analysis, data_from_query_match for a pattern whose name is none of
\* definition.scoped, definition.exported, comment, scope, reference:
\* panic!("Unknown query ..") unwinds the worker, which drops the Analyzer
MatchOtherIgnored(f, bound) ==
    /\ HasMatch(f, bound)
    /\ nmatched' = [nmatched EXCEPT ![f] = @ + 1]
    /\ UNCHANGED <<apc, last_comment, defs, refs, scopes, cvars, cachevars, evars, ivars, svars, runvars, sent_defs, ref_count>>

MatchOther(f, bound) ==
    /\ HasMatch(f, bound)
    /\ nmatched' = [nmatched EXCEPT ![f] = @ + 1]
    /\ apc' = [apc EXCEPT ![f] = "panicked"]
    /\ defs' = [defs EXCEPT ![f] = [n \in Names |-> <<>>]]
    /\ refs' = [refs EXCEPT ![f] = <<>>]
    /\ scopes' = [scopes EXCEPT ![f] = <<>>]
    /\ last_comment' = [last_comment EXCEPT ![f] = None]
    /\ UNCHANGED <<cvars, cachevars, evars, ivars, svars, runvars, sent_defs, ref_count>>

\* the Analyzer is dropped when run_analysis returns
Returned(f, pending) ==
    IF pending = <<>>
    THEN /\ apc' = [apc EXCEPT ![f] = "done"]
         /\ defs' = [defs EXCEPT ![f] = [n \in Names |-> <<>>]]
         /\ scopes' = [scopes EXCEPT ![f] = <<>>]
         /\ last_comment' = [last_comment EXCEPT ![f] = None]
    ELSE /\ apc' = [apc EXCEPT ![f] = "sending"]
         /\ UNCHANGED <<defs, scopes, last_comment>>

\* run_analysis after the match loop: take(&mut analyzer.refs),
\* try_link_references; with nothing to send, run_analysis returns
EndTraversalDroppingUnresolved(f) ==
    /\ apc[f] = "matching"
    /\ refs' = [refs EXCEPT ![f] = SelectSeq(try_link_references(defs[f], @), has_def)]
    /\ Returned(f, SelectSeq(try_link_references(defs[f], refs[f]), has_def))
    /\ UNCHANGED <<nmatched, cvars, cachevars, evars, ivars, svars, runvars, sent_defs, ref_count>>

EndTraversalWithoutSecondPass(f) ==
    /\ apc[f] = "matching"
    /\ Returned(f, refs[f])
    /\ UNCHANGED <<refs, nmatched, cvars, cachevars, evars, ivars, svars, runvars, sent_defs, ref_count>>

EndTraversal(f) ==
    /\ apc[f] = "matching"
    /\ refs' = [refs EXCEPT ![f] = try_link_references(defs[f], @)]
    /\ Returned(f, refs[f])
    /\ UNCHANGED <<nmatched, cvars, cachevars, evars, ivars, svars, runvars, sent_defs, ref_count>>

\* run_analysis: refs.into_iter().for_each(send), one reference; after the
\* last one run_analysis returns
SendReference(f) ==
    /\ apc[f] = "sending"
    /\ refs[f] # <<>>
    /\ ref_chan' = Append(ref_chan, Head(refs[f]))
    /\ refs' = [refs EXCEPT ![f] = Tail(@)]
    /\ Returned(f, Tail(refs[f]))
    /\ ref_count' = [ref_count EXCEPT !.sent = @ + 1]
    /\ UNCHANGED <<nmatched, def_chan, cachevars, evars, ivars, svars, runvars, sent_defs>>

\* =============================================================== Emitter
\* protocol::types: the records of the dump.  A Range vertex also records,
\* as history, the location it was emitted for (the dump holds only the span).
Vertex(n, label, data) == [id |-> n, type |-> "vertex", label |-> label, data |-> data]
RangeVertex(n, loc) ==
    [id |-> n, type |-> "vertex", label |-> "range",
     data |-> [start |-> loc.range.start_byte, end |-> loc.range.end_byte],
     location |-> loc]
\* the edge! macro: an edge with one inV
Edge1(n, label, outV, inV) ==
    [id |-> n, type |-> "edge", label |-> label, outV |-> outV, inV |-> inV]
\* Edge::contains
EdgeContains(n, outV, inVs) ==
    [id |-> n, type |-> "edge", label |-> "contains", outV |-> outV, inVs |-> inVs]
\* enum Item under #[serde(tag = "property", rename_all = "camelCase")]: the
\* tag a variant is serialized with; Neither carries #[serde(rename = "")]
serde_tag(variant) ==
    CASE variant = "Neither" -> ""
      [] variant = "Definition" -> "definition"
      [] variant = "Reference" -> "reference"

\* Edge::item, Edge::def_item, Edge::ref_item
EdgeItemOf(n, property, outV, inVs, doc_id) ==
    [id |-> n, type |-> "edge", label |-> "item", outV |-> outV, inVs |-> inVs,
     document |-> doc_id, property |-> property]
EdgeItem(n, outV, inVs, doc_id) == EdgeItemOf(n, serde_tag("Neither"), outV, inVs, doc_id)
EdgeDefItem(n, outV, inVs, doc_id) == EdgeItemOf(n, serde_tag("Definition"), outV, inVs, doc_id)
EdgeRefItem(n, outV, inVs, doc_id) == EdgeItemOf(n, serde_tag("Reference"), outV, inVs, doc_id)

\* HashMap::insert
Insert(m, k, v) == (k :> v) @@ m
\* HashMap::entry(k).or_default() for a map of vectors
or_default(m, k) == IF k \in DOMAIN m THEN m ELSE (k :> <<>>) @@ m

\* the iteration orders of a HashMap with key set S
Orders(S) == {o \in [1..Cardinality(S) -> S] : \A i, j \in DOMAIN o : o[i] = o[j] => i = j}

\* ========================================================= LsifDataCache
\* LsifDataCache::cache_document
DocumentInfo(document_id) ==
    [id |-> document_id, definition_range_ids |-> <<>>, reference_range_ids |-> <<>>]

\* LsifDataCache::get_range_id
get_range_id(f, offset) ==
    IF offset \in DOMAIN ranges[f] THEN Some(ranges[f][offset]) ELSE None

\* LsifDataCache::defs_with_name
defs_with_name_or_any(name) ==
    IF name \in DOMAIN exported_defs THEN Some(exported_defs[name])
    ELSE IF DOMAIN exported_defs # {}
         THEN Some(exported_defs[CHOOSE n \in DOMAIN exported_defs : TRUE])
         ELSE None

defs_with_name(name) ==
    IF name \in DOMAIN exported_defs THEN Some(exported_defs[name]) ELSE None

\* LsifDataCache::cache_definition, the exported table
cache_exported(table, def) ==
    IF def.kind = DefinitionKindExported
    THEN Insert(table, def.node_name, def)
    ELSE table

\* LsifDataCache::cache_reference, the key of DefinitionInfo.reference_range_ids
reference_group(def, r) == documents[def.location.file_path].id

\* =============================================================== Indexer
\* Indexer::emit_metadata_and_project_vertex
EmitMetadata ==
    /\ ipc = "metadata"
    /\ id' = id + 1
    /\ out' = Append(out, Vertex(id + 1, "metaData", "0.1"))
    /\ project_id' = id + 1
    /\ ipc' = "documents"
    /\ last_op' = [op |-> "emit_metadata"]
    /\ UNCHANGED <<avars, cvars, cachevars, ndocs, linked, contained, svars, runvars, sent_defs, ref_count>>

\* Indexer::emit_documents, one path of the walk: emit_vertex, cache_document
EmitDocument ==
    /\ ipc = "documents"
    /\ ndocs < Len(file_paths)
    /\ LET filename == file_paths[ndocs + 1]
       IN  /\ id' = id + 1
           /\ out' = Append(out, Vertex(id + 1, "document", filename))
           /\ documents' = Insert(documents, filename, DocumentInfo(id + 1))
           /\ ranges' = Insert(ranges, filename, <<>>)
    /\ ndocs' = ndocs + 1
    /\ last_op' = [op |-> "emit_document"]
    /\ UNCHANGED <<avars, cvars, def_infos, exported_defs, ipc, project_id, linked, contained, svars, runvars, sent_defs, ref_count>>

\* Indexer::index after emit_documents: query_for_language and parse_files
\* succeed, and the parallel pass of emit_definitions starts
StartAnalysisBeforeDocuments ==
    /\ ipc = "documents"
    /\ ipc' = "analysis"
    /\ apc' = [f \in Files |-> IF f \in Project THEN "matching" ELSE apc[f]]
    /\ last_op' = [op |-> "start_analysis"]
    /\ UNCHANGED <<nmatched, last_comment, defs, refs, scopes, cvars, cachevars, evars,
                   project_id, ndocs, linked, contained, svars, runvars, sent_defs, ref_count>>

StartAnalysis ==
    /\ ipc = "documents"
    /\ ndocs = Len(file_paths)
    /\ ipc' = "analysis"
    /\ apc' = [f \in Files |-> IF f \in Project THEN "matching" ELSE apc[f]]
    /\ last_op' = [op |-> "start_analysis"]
    /\ UNCHANGED <<nmatched, last_comment, defs, refs, scopes, cvars, cachevars, evars,
                   project_id, ndocs, linked, contained, svars, runvars, sent_defs, ref_count>>

\* Indexer::index: query_for_language fails to compile the query source and
\* `?` returns the error at once
QueryErrorAfterAnalysis ==
    /\ ipc = "defs"
    /\ ipc' = "error"
    /\ last_op' = [op |-> "query_for_language"]
    /\ UNCHANGED <<avars, cvars, cachevars, evars, project_id, ndocs, linked, contained, svars, runvars, sent_defs, ref_count>>

QueryError ==
    /\ ipc = "documents"
    /\ ndocs = Len(file_paths)
    /\ ipc' = "error"
    /\ last_op' = [op |-> "query_for_language"]
    /\ UNCHANGED <<avars, cvars, cachevars, evars, project_id, ndocs, linked, contained, svars, runvars, sent_defs, ref_count>>

\* parse_files: parser_for_language, read_file or parser.parse fails for a
\* path; unwrap() panics inside the parallel map and rayon resumes the panic
\* in the thread that called Indexer::index
ParseFailure ==
    /\ ipc = "documents"
    /\ ndocs = Len(file_paths)
    /\ \E i \in DOMAIN file_paths :
          last_op' = [op |-> "parse_files", path |-> file_paths[i]]
    /\ ipc' = "panicked"
    /\ UNCHANGED <<avars, cvars, cachevars, evars, project_id, ndocs, linked, contained, svars, runvars, sent_defs, ref_count>>

\* emit_definitions: for_each_with returns once every worker has returned
JoinWorkers ==
    /\ ipc = "analysis"
    /\ \A f \in Project : apc[f] = "done"
    /\ ipc' = "defs"
    /\ last_op' = [op |-> "join"]
    /\ UNCHANGED <<avars, cvars, cachevars, evars, project_id, ndocs, linked, contained, svars, runvars, sent_defs, ref_count>>

\* Indexer::index_definition with LsifDataCache::cache_definition
IndexDefinition ==
    /\ ipc = "defs"
    /\ def_chan # <<>>
    /\ LET def == Head(def_chan)
           f == def.location.file_path
       IN  IF f \notin DOMAIN documents
           THEN \* get_document_id(..).unwrap() panics
                /\ ipc' = "panicked"
                /\ last_op' = [op |-> "index_definition", def |-> def]
                /\ UNCHANGED <<cachevars, evars>>
           ELSE LET document_id == documents[f].id
                    range_id == id + 1
                    result_set_id == id + 2
                    def_result_id == id + 3
                    hover_result_id == id + 4
                    moniker_id == id + 5
                IN  /\ id' = id + 10
                    /\ out' = out \o
                         << RangeVertex(range_id, def.location),
                            Vertex(result_set_id, "resultSet", <<>>),
                            Vertex(def_result_id, "definitionResult", <<>>),
                            Vertex(hover_result_id, "hoverResult",
                                   [value |-> def.comment, isRawString |-> TRUE]),
                            Vertex(moniker_id, "moniker",
                                   [kind |-> IF def.kind = DefinitionKindExported
                                             THEN "exported" ELSE "local",
                                    scheme |-> "zas",
                                    identifier |-> <<file_name(def.location), ":", def.node_name>>]),
                            Edge1(id + 6, "next", range_id, result_set_id),
                            Edge1(id + 7, "textDocument/definition", result_set_id, def_result_id),
                            EdgeItem(id + 8, def_result_id, <<range_id>>, document_id),
                            Edge1(id + 9, "moniker", result_set_id, moniker_id),
                            Edge1(id + 10, "textDocument/hover", result_set_id, hover_result_id) >>
                    /\ ranges' = [ranges EXCEPT ![f] =
                                     Insert(@, def.location.range.start_byte, range_id)]
                    /\ documents' = [documents EXCEPT ![f].definition_range_ids =
                                        Append(@, range_id)]
                    /\ def_infos' = Insert(def_infos, def.location,
                                           [document_id |-> document_id,
                                            range_id |-> range_id,
                                            result_set_id |-> result_set_id,
                                            reference_range_ids |-> <<>>])
                    /\ exported_defs' = cache_exported(exported_defs, def)
                    /\ ipc' = ipc
                    /\ last_op' = [op |-> "index_definition", def |-> def]
    /\ def_chan' = Tail(def_chan)
    /\ UNCHANGED <<avars, ref_chan, project_id, ndocs, linked, contained, svars, runvars, sent_defs, ref_count>>

\* emit_definitions: `for def in def_receiver` ends when the channel is empty
\* and every sender has been dropped
DefinitionsDrainedEarly ==
    /\ ipc = "defs"
    /\ ipc' = "refs"
    /\ last_op' = [op |-> "definitions_drained"]
    /\ UNCHANGED <<avars, cvars, cachevars, evars, project_id, ndocs, linked, contained, svars, runvars, sent_defs, ref_count>>

\* the loop when the calling thread keeps a sender of its own alive: the
\* channel never closes
DefinitionsDrainedSenderKept ==
    /\ ipc = "defs"
    /\ def_chan = <<>>
    /\ \A f \in Project : apc[f] = "done"
    /\ FALSE
    /\ ipc' = "refs"
    /\ last_op' = [op |-> "definitions_drained"]
    /\ UNCHANGED <<avars, cvars, cachevars, evars, project_id, ndocs, linked, contained, svars, runvars, sent_defs, ref_count>>

DefinitionsDrained ==
    /\ ipc = "defs"
    /\ def_chan = <<>>
    /\ \A f \in Project : apc[f] = "done"
    /\ ipc' = "refs"
    /\ last_op' = [op |-> "definitions_drained"]
    /\ UNCHANGED <<avars, cvars, cachevars, evars, project_id, ndocs, linked, contained, svars, runvars, sent_defs, ref_count>>

\* Indexer::ensure_range_for: the id of the reference's range and whether a
\* new Range vertex has to be emitted for it
ensure_range_for_without_emit(r) ==
    LET cached == get_range_id(r.location.file_path, r.location.range.start_byte)
    IN  [range_id |-> IF IsSome(cached) THEN Unwrap(cached) ELSE id + 1, fresh |-> FALSE]

ensure_range_for_always_emit(r) == [range_id |-> id + 1, fresh |-> TRUE]

ensure_range_for(r) ==
    LET cached == get_range_id(r.location.file_path, r.location.range.start_byte)
    IN  IF IsSome(cached)
        THEN [range_id |-> Unwrap(cached), fresh |-> FALSE]
        ELSE [range_id |-> id + 1, fresh |-> TRUE]

\* Indexer::index_reference with index_reference_to_definition,
\* ensure_range_for, cache_reference_range and cache_reference
IndexReference ==
    /\ ipc = "refs"
    /\ ref_chan # <<>>
    /\ LET r == Head(ref_chan)
           target == IF has_def(r) THEN r.def ELSE defs_with_name(r.node_name)
       IN  IF ~IsSome(target)
           THEN /\ last_op' = [op |-> "index_reference", r |-> r, target |-> target]
                /\ UNCHANGED <<cachevars, evars, ipc>>
           ELSE LET def == Unwrap(target)
                    e == ensure_range_for(r)
                    rf == r.location.file_path
                    nfresh == IF e.fresh THEN 1 ELSE 0
                IN  IF def.location \notin DOMAIN def_infos
                    THEN \* get_definition_info(..).unwrap() panics
                         /\ ipc' = "panicked"
                         /\ id' = id + nfresh
                         /\ out' = out \o (IF e.fresh THEN <<RangeVertex(e.range_id, r.location)>>
                                                      ELSE <<>>)
                         /\ ranges' = IF e.fresh
                                      THEN [ranges EXCEPT ![rf] =
                                               Insert(@, r.location.range.start_byte, e.range_id)]
                                      ELSE ranges
                         /\ last_op' = [op |-> "index_reference", r |-> r, target |-> target]
                         /\ UNCHANGED <<documents, def_infos, exported_defs>>
                    ELSE LET def_result_set_id == def_infos[def.location].result_set_id
                             group == reference_group(def, r)
                             grouped == or_default(def_infos[def.location].reference_range_ids,
                                                   group)
                         IN  /\ id' = id + nfresh + 1
                             /\ out' = out \o
                                   (IF e.fresh THEN <<RangeVertex(e.range_id, r.location)>>
                                               ELSE <<>>) \o
                                   <<Edge1(id + nfresh + 1, "next", e.range_id, def_result_set_id)>>
                             /\ ranges' = IF e.fresh
                                          THEN [ranges EXCEPT ![rf] =
                                                   Insert(@, r.location.range.start_byte, e.range_id)]
                                          ELSE ranges
                             /\ def_infos' = [def_infos EXCEPT ![def.location].reference_range_ids =
                                                 [grouped EXCEPT ![group] = Append(@, e.range_id)]]
                             /\ documents' = [documents EXCEPT ![rf].reference_range_ids =
                                                 Append(@, e.range_id)]
                             /\ ipc' = ipc
                             /\ last_op' = [op |-> "index_reference", r |-> r, target |-> target,
                                            range_id |-> e.range_id, fresh |-> e.fresh]
                             /\ UNCHANGED exported_defs
    /\ ref_chan' = Tail(ref_chan)
    /\ ref_count' = [ref_count EXCEPT !.received = @ + 1]
    /\ UNCHANGED <<avars, def_chan, project_id, ndocs, linked, contained, svars, runvars, sent_defs>>

\* emit_definitions: `for r in ref_receiver` ends
ReferencesDrained ==
    /\ ipc = "refs"
    /\ ref_chan = <<>>
    /\ \A f \in Project : apc[f] = "done"
    /\ ipc' = "link"
    /\ last_op' = [op |-> "references_drained"]
    /\ UNCHANGED <<avars, cvars, cachevars, evars, project_id, ndocs, linked, contained, svars, runvars, sent_defs, ref_count>>

\* link_items_to_definitions, the records of one DefinitionInfo d emitted
\* from id n + 1 on; order is the iteration order of d.reference_range_ids
LinkItems(n, d, order) ==
    << Vertex(n + 1, "referenceResult", <<>>),
       Edge1(n + 2, "textDocument/references", d.result_set_id, n + 1),
       EdgeDefItem(n + 3, n + 1, <<d.range_id>>, d.document_id) >> \o
    [i \in 1..Len(order) |->
        EdgeRefItem(n + 3 + i, n + 1, d.reference_range_ids[order[i]], order[i])]

\* the records of the DefinitionInfos at locs[1..k], emitted from id n + 1 on
RECURSIVE LinkAll(_, _, _, _)
LinkAll(n, locs, k, orders) ==
    IF k = 0 THEN <<>>
    ELSE LET before == LinkAll(n, locs, k - 1, orders)
         IN  before \o LinkItems(n + Len(before), def_infos[locs[k]], orders[locs[k]])

\* Indexer::link_reference_results_to_ranges with link_items_to_definitions:
\* def_infos and each reference_range_ids are visited in HashMap order
LinkReferenceResultsToRanges ==
    /\ ipc = "link"
    /\ \E locs \in Orders(DOMAIN def_infos) :
       \E orders \in [DOMAIN def_infos -> UNION {Orders(DOMAIN def_infos[l].reference_range_ids)
                                                   : l \in DOMAIN def_infos}] :
          /\ \A l \in DOMAIN def_infos :
                orders[l] \in Orders(DOMAIN def_infos[l].reference_range_ids)
          /\ LET records == LinkAll(id, locs, Len(locs), orders)
             IN  /\ out' = out \o records
                 /\ id' = id + Len(records)
          /\ linked' = locs
    /\ ipc' = "contains"
    /\ last_op' = [op |-> "link"]
    /\ UNCHANGED <<avars, cvars, cachevars, project_id, ndocs, contained, svars, runvars, sent_defs, ref_count>>

\* emit_contains, the edges of the documents at order[1..k], from id n + 1 on
RECURSIVE ContainsAllUnconditional(_, _, _)
ContainsAllUnconditional(n, order, k) ==
    IF k = 0 THEN <<>>
    ELSE LET before == ContainsAllUnconditional(n, order, k - 1)
             d == documents[order[k]]
             all_range_ids == d.reference_range_ids \o d.definition_range_ids
         IN  Append(before, EdgeContains(n + Len(before) + 1, d.id, all_range_ids))

RECURSIVE ContainsAllDefinitionRanges(_, _, _)
ContainsAllDefinitionRanges(n, order, k) ==
    IF k = 0 THEN <<>>
    ELSE LET before == ContainsAllDefinitionRanges(n, order, k - 1)
             d == documents[order[k]]
             all_range_ids == d.definition_range_ids
         IN  IF all_range_ids # <<>>
             THEN Append(before, EdgeContains(n + Len(before) + 1, d.id, all_range_ids))
             ELSE before

RECURSIVE ContainsAll(_, _, _)
ContainsAll(n, order, k) ==
    IF k = 0 THEN <<>>
    ELSE LET before == ContainsAll(n, order, k - 1)
             d == documents[order[k]]
             all_range_ids == d.reference_range_ids \o d.definition_range_ids
         IN  IF all_range_ids # <<>>
             THEN Append(before, EdgeContains(n + Len(before) + 1, d.id, all_range_ids))
             ELSE before

\* Indexer::emit_contains with emit_contains_for_project; both iterations
\* visit documents in the same HashMap order
EmitContainsOfNonEmptyDocuments ==
    /\ ipc = "contains"
    /\ \E order \in Orders(DOMAIN documents) :
          LET edges == ContainsAll(id, order, Len(order))
              n == id + Len(edges)
          IN  /\ out' = out \o edges \o
                    <<EdgeContains(n + 1, project_id, [i \in 1..Len(edges) |-> edges[i].outV])>>
              /\ id' = n + 1
              /\ contained' = order
    /\ ipc' = "end"
    /\ last_op' = [op |-> "emit_contains"]
    /\ UNCHANGED <<avars, cvars, cachevars, project_id, ndocs, linked, svars, runvars, sent_defs, ref_count>>

EmitContains ==
    /\ ipc = "contains"
    /\ \E order \in Orders(DOMAIN documents) :
          LET edges == ContainsAll(id, order, Len(order))
              n == id + Len(edges)
          IN  /\ out' = out \o edges \o
                    <<EdgeContains(n + 1, project_id,
                                   [i \in 1..Len(order) |-> documents[order[i]].id])>>
              /\ id' = n + 1
              /\ contained' = order
    /\ ipc' = "end"
    /\ last_op' = [op |-> "emit_contains"]
    /\ UNCHANGED <<avars, cvars, cachevars, project_id, ndocs, linked, svars, runvars, sent_defs, ref_count>>

\* Indexer::index: emitter.end() and Ok(())
End ==
    /\ ipc = "end"
    /\ ipc' = "done"
    /\ last_op' = [op |-> "end"]
    /\ UNCHANGED <<avars, cvars, cachevars, evars, project_id, ndocs, linked, contained, svars, runvars, sent_defs, ref_count>>

\* =================================================================== cli
\* A path is the sequence of its std::path components: "/" is RootDir, "."
\* is CurDir, ".." is ParentDir and anything else a Normal component.
\* Path::components yields RootDir and CurDir in the first place only.
MaxPathLen == 3

PathComponents == {"/", ".", "..", "o", "dump.json"}
Paths ==
    {q \in UNION {[1..n -> PathComponents] : n \in 1..MaxPathLen} :
        \A i \in 2..Len(q) : q[i] \notin {"/", "."}}

\* the working directory of the process
Cwd == <<"/", "w">>

\* Path::is_absolute
is_absolute(path) == path # <<>> /\ path[1] = "/"

\* PathBuf::push: an absolute component replaces the path
push(ret, component) == IF component = "/" THEN <<"/">> ELSE Append(ret, component)

\* PathBuf::pop: truncates to the parent, does nothing without a parent
pop(ret) == IF ret = <<>> \/ ret = <<"/">> THEN ret ELSE SubSeq(ret, 1, Len(ret) - 1)

\* Path::join
join(base, path) == IF is_absolute(path) THEN path ELSE base \o path

\* normalize_path after the first k components of path; there is no Prefix
\* component on this platform, so ret starts as PathBuf::new()
RECURSIVE normalize_components(_, _)
normalize_components(path, k) ==
    IF k = 0 THEN <<>>
    ELSE LET ret == normalize_components(path, k - 1)
             component == path[k]
         IN  CASE component = "/" -> push(ret, component)
               [] component = "." -> ret
               [] component = ".." -> pop(ret)
               [] OTHER -> push(ret, component)

\* cli::normalize_path
normalize_path(path) == normalize_components(path, Len(path))

\* std::fs::canonicalize of a path that exists, in a file system without
\* symbolic links: made absolute against the working directory, with every
\* "." and ".." resolved
canonicalize(path) == normalize_components(join(Cwd, path), Len(join(Cwd, path)))

\* the result of Opts::from_args: the project root as given and the output
\* path, if one was given
ParsedOpts ==
    [project_root : {<<"p">>, <<".", "p">>, <<"/", "w", "p">>},
     output : {None} \cup {Some(q) : q \in Paths}]

\* Opts::canonicalize_paths, called by main before the output file is opened
canonicalize_paths ==
    /\ mpc = "args"
    /\ LET project_root == canonicalize(opts.project_root)
       IN  opts' = [project_root |-> project_root,
                    output |-> Some(IF IsSome(opts.output)
                                    THEN normalize_path(Unwrap(opts.output))
                                    ELSE normalize_path(join(project_root, <<"dump.json">>)))]
    /\ mpc' = "indexing"
    /\ last_op' = [op |-> "canonicalize_paths", given |-> opts]
    /\ UNCHANGED <<avars, cvars, cachevars, evars, ipc, project_id, ndocs, linked, contained,
                   entry_chan, entry_open, written, flushed, signal, spc,
                   sent_defs, ref_count, walk, first_run, query>>

\* ----------------------------------------------------------------- query
\* Patterns of a query source looked at by get_capture_names.
MaxPatterns == 2

\* the capture names a pattern of the bounded query sources may carry
CaptureNames == {<<"r">>, <<"d", ".", "s">>}

\* what follows the first capture name of a pattern
Shapes == {"newline", "space", "tab", "tab_newline", "second_capture", "grouped", "end"}

\* the text of one pattern with the white space up to the next pattern:
\* "(a) @name" followed by a newline, a space and a newline, a tab, a tab and
\* a newline, a second capture, the ")" of a grouping, or nothing
PatternText(name, shape) ==
    LET node == <<"(", "a", ")", " ", "@">> \o name
    IN  CASE shape = "newline"        -> node \o <<"\n">>
          [] shape = "space"          -> node \o <<" ", "\n">>
          [] shape = "tab"            -> node \o <<"\t">>
          [] shape = "tab_newline"    -> node \o <<"\t", "\n">>
          [] shape = "second_capture" -> node \o <<" ", "@", "x", "\n">>
          [] shape = "grouped"        -> <<"(">> \o node \o <<")", "\n">>
          [] shape = "end"            -> node

RECURSIVE Concat(_)
Concat(texts) ==
    IF texts = <<>> THEN <<>> ELSE Head(texts) \o Concat(Tail(texts))

\* Query::new on the concatenation of the pattern texts: the source, and
\* Query::start_byte_for_pattern for each pattern (pattern_count of them)
QueryOf(texts) ==
    [source |-> Concat(texts),
     start_bytes |-> [i \in 1..Len(texts) |-> Len(Concat(SubSeq(texts, 1, i - 1)))]]

\* the query sources of at most MaxPatterns patterns; a capture name can end
\* the source only in the last pattern
Queries ==
    {QueryOf(texts) : texts \in
        UNION {{t \in [1..n -> {PatternText(name, shape) : name \in CaptureNames, shape \in Shapes}] :
                  \A i \in 1..(n - 1) : \A name \in CaptureNames : t[i] # PatternText(name, "end")}
               : n \in 1..MaxPatterns}}

\* queries/typescript.scm reduced to two patterns
TypeScriptQuery == QueryOf(<<PatternText(<<"d", ".", "s">>, "newline"), PatternText(<<"r">>, "newline")>>)

\* str::find over a set of characters: the 0-based index of the first one
find(s, chars) ==
    LET idx == {i \in 1..Len(s) : s[i] \in chars}
    IN  IF idx = {} THEN None ELSE Some(SetMin(idx) - 1)

\* String::drain(from..to) collected: the bytes from..to (0-based, to excluded)
drain(s, from, to) == SubSeq(s, from + 1, to)

\* the body of the loop of get_capture_names for the pattern pat_idx:
\* None when one of its two unwrap() calls panics
capture_name_of(q, pat_idx) ==
    LET start_byte == q.start_bytes[pat_idx]
        drained == IF pat_idx # Len(q.start_bytes)
                   THEN drain(q.source, start_byte, q.start_bytes[pat_idx + 1])
                   ELSE drain(q.source, start_byte, Len(q.source))
        at == find(drained, {"@"})
    IN  IF ~IsSome(at) THEN None
        ELSE LET query_start == Unwrap(at) + 1
                 rest == drain(drained, query_start, Len(drained))
                 query_end == find(rest, {"\n", " ", ")"})
             IN  IF ~IsSome(query_end) THEN None
                 ELSE Some(drain(rest, 0, Unwrap(query_end)))

\* get_capture_names: the names pushed before the first panic, if any
get_capture_names(q) ==
    LET n == Len(q.start_bytes)
        failing == {i \in 1..n : ~IsSome(capture_name_of(q, i))}
        pushed == IF failing = {} THEN n ELSE SetMin(failing) - 1
    IN  [panicked |-> failing # {},
         patterns |-> [i \in 1..pushed |-> Unwrap(capture_name_of(q, i))]]

\* emit_definitions: let capture_names = get_capture_names(&query, ..)
GetCaptureNames ==
    /\ last_op.op = "new"
    /\ last_op' = [op |-> "get_capture_names", result |-> get_capture_names(query)]
    /\ ipc' = IF get_capture_names(query).panicked THEN "panicked" ELSE ipc
    /\ UNCHANGED <<avars, cvars, cachevars, evars, project_id, ndocs, linked, contained,
                   svars, runvars, sent_defs, ref_count>>

\* ========================================================= specifications
\* the Indexer, the FileEmitter and the channels after construction; no
\* worker exists yet
Constructed ==
    /\ apc = [f \in Files |-> "idle"]
    /\ nmatched = [f \in Files |-> 0]
    /\ last_comment = [f \in Files |-> None]
    /\ defs = [f \in Files |-> [n \in Names |-> <<>>]]
    /\ refs = [f \in Files |-> <<>>]
    /\ scopes = [f \in Files |-> <<>>]
    /\ def_chan = <<>>
    /\ ref_chan = <<>>
    /\ ipc = "metadata"
    /\ project_id = 0
    /\ documents = <<>>
    /\ ranges = <<>>
    /\ def_infos = <<>>
    /\ exported_defs = <<>>
    /\ id = 0
    /\ out = <<>>
    /\ ndocs = 0
    /\ linked = <<>>
    /\ contained = <<>>
    /\ sent_defs = <<>>
    /\ last_op = [op |-> "new"]
    /\ entry_chan = <<>>
    /\ entry_open = TRUE
    /\ written = <<>>
    /\ flushed = FALSE
    /\ signal = 0
    /\ spc = "receiving"
    /\ ref_count = [sent |-> 0, received |-> 0]
    /\ first_run = None

\* main has parsed and canonicalized the options and calls Indexer::index
\* on a project of two files
Init ==
    /\ Constructed
    /\ mpc = "indexing"
    /\ opts = [project_root |-> <<"/", "w", "p">>,
               output |-> Some(<<"/", "w", "p", "dump.json">>)]
    /\ walk = <<FileA, FileB>>
    /\ query = TypeScriptQuery

\* main has parsed the command line
InitCli ==
    /\ Constructed
    /\ mpc = "args"
    /\ opts \in ParsedOpts
    /\ walk = <<FileA, FileB>>
    /\ query = TypeScriptQuery

SpecCli == InitCli /\ [][canonicalize_paths]_vars

\* emit_definitions is about to recover the pattern names of some query
InitQuery ==
    /\ Constructed
    /\ mpc = "indexing"
    /\ opts = [project_root |-> <<"/", "w", "p">>,
               output |-> Some(<<"/", "w", "p", "dump.json">>)]
    /\ walk = <<FileA, FileB>>
    /\ query \in Queries

SpecQuery == InitQuery /\ [][GetCaptureNames]_vars

\* the steps of the analyzer worker of file f, handling at most bound matches
Worker(f, bound) ==
    \/ MatchScope(f, bound)
    \/ MatchComment(f, bound)
    \/ MatchDefinition(f, bound)
    \/ MatchReference(f, bound)
    \/ EndTraversal(f)
    \/ SendReference(f)

Next ==
    \/ EmitMetadata
    \/ EmitDocument
    \/ QueryError
    \/ ParseFailure
    \/ StartAnalysis
    \/ \E f \in Files : Worker(f, MaxMatches)
    \/ JoinWorkers
    \/ IndexDefinition
    \/ DefinitionsDrained
    \/ IndexReference
    \/ ReferencesDrained
    \/ LinkReferenceResultsToRanges
    \/ EmitContains
    \/ End

Spec == Init /\ [][Next]_vars

\* Query matches handled by all workers together in a run of the fan-out.
MaxFanOutMatches == 2

\* the steps of the thread that called Indexer::index, from the end of the
\* parallel pass on
Orchestrator ==
    \/ JoinWorkers
    \/ IndexDefinition
    \/ DefinitionsDrained
    \/ IndexReference
    \/ ReferencesDrained
    \/ LinkReferenceResultsToRanges
    \/ EmitContains
    \/ End

NextFanOut ==
    \/ EmitMetadata
    \/ EmitDocument
    \/ StartAnalysis
    \/ \E f \in Files : Worker(f, MaxFanOutMatches)
    \/ JoinWorkers
    \/ IndexDefinition
    \/ DefinitionsDrained
    \/ IndexReference
    \/ ReferencesDrained
    \/ LinkReferenceResultsToRanges
    \/ EmitContains
    \/ End

\* a run in which the rayon workers and the calling thread are scheduled fairly
FairSpecFanOut ==
    /\ Init
    /\ [][NextFanOut]_vars
    /\ \A f \in Files : WF_vars(Worker(f, MaxFanOutMatches))
    /\ WF_vars(Orchestrator)

\* the analysis of one file on its own: the other workers have not been
\* scheduled yet and the orchestrator waits for them
NextAnalysis ==
    \/ EmitMetadata
    \/ EmitDocument
    \/ StartAnalysis
    \/ Worker(FileB, MaxFileMatches)

SpecAnalysis == Init /\ [][NextAnalysis]_vars

\* Query matches handled by the worker of a file whose query has patterns
\* with names of its own.
MaxNamedMatches == 3

\* the analysis of one file with a query file that also holds patterns whose
\* first capture is not one of the five names
NextNamed ==
    \/ EmitMetadata
    \/ EmitDocument
    \/ StartAnalysis
    \/ Worker(FileB, MaxNamedMatches)
    \/ MatchOther(FileB, MaxNamedMatches)

SpecNamed == Init /\ [][NextNamed]_vars

\* Query matches handled by one worker when its traversal is looked at alone.
MaxTraversalMatches == 4

\* run_analysis of one file from its first match to its last send
NextTraversal ==
    \/ EmitMetadata
    \/ EmitDocument
    \/ StartAnalysis
    \/ Worker(FileB, MaxTraversalMatches)

SpecTraversal == Init /\ [][NextTraversal]_vars

\* Query matches handled by all workers together in a run that is repeated.
MaxRepeatedMatches == 3

\* the orders in which the items of q, sent by the workers of several files,
\* can arrive on a channel: each worker sends in its own order and the
\* workers interleave freely
Merges(q) ==
    {[i \in 1..Len(q) |-> q[m[i]]] :
        m \in {m \in [1..Len(q) -> 1..Len(q)] :
                  /\ \A i, j \in 1..Len(q) : m[i] = m[j] => i = j
                  /\ \A i, j \in 1..Len(q) :
                        (i < j /\ q[m[i]].location.file_path = q[m[j]].location.file_path)
                            => m[i] < m[j]}}

\* the dump without its ids and its record order: the contents of the
\* vertices, and for every next edge the location of its range and the
\* definition (location and moniker) whose resultSet it leads to
Structure(o) ==
    [vertices |-> {<<o[i].label, o[i].data>> : i \in {j \in DOMAIN o : o[j].type = "vertex"}},
     links |-> {<<o[o[i].outV].location,
                  o[o[i].inV - 1].location, o[o[i].inV + 3].data>> :
                   i \in {j \in DOMAIN o : o[j].type = "edge" /\ o[j].label = "next"}}]

\* emit_definitions in the first of two runs: for_each_with returns once
\* every worker has returned; what the workers sent on the reference
\* channel is kept for the second run
JoinWorkersOfFirstRun ==
    /\ ipc = "analysis"
    /\ \A f \in Project : apc[f] = "done"
    /\ first_run = None
    /\ ipc' = "defs"
    /\ last_op' = [op |-> "join"]
    /\ first_run' = Some([run |-> 1, sent_refs |-> ref_chan, structure |-> Structure(<<>>)])
    /\ UNCHANGED <<avars, cvars, cachevars, evars, project_id, ndocs, linked, contained, svars,
                   sent_defs, ref_count, opts, walk, query>>

\* main is run again on the same project: Indexer::index starts from a new
\* Indexer and a new emitter and emits the same metaData and document
\* vertices; the worker of a file reads nothing but its file, so each sends
\* what it sent in the first run, and the sends of different workers arrive
\* in any order
IndexAgain ==
    /\ ipc = "done"
    /\ IsSome(first_run)
    /\ Unwrap(first_run).run = 1
    /\ first_run' = Some([Unwrap(first_run) EXCEPT !.run = 2, !.structure = Structure(out)])
    /\ def_chan' \in Merges(sent_defs)
    /\ ref_chan' \in Merges(Unwrap(first_run).sent_refs)
    /\ ref_count' = [sent |-> Len(Unwrap(first_run).sent_refs), received |-> 0]
    /\ documents' = [f \in DOMAIN documents |-> DocumentInfo(documents[f].id)]
    /\ ranges' = [f \in DOMAIN ranges |-> <<>>]
    /\ def_infos' = <<>>
    /\ exported_defs' = <<>>
    /\ id' = 1 + ndocs
    /\ out' = SubSeq(out, 1, 1 + ndocs)
    /\ linked' = <<>>
    /\ contained' = <<>>
    /\ ipc' = "defs"
    /\ last_op' = [op |-> "join"]
    /\ UNCHANGED <<avars, project_id, ndocs, svars, sent_defs, opts, walk, query>>

NextRepeated ==
    \/ EmitMetadata
    \/ EmitDocument
    \/ StartAnalysis
    \/ \E f \in Files : Worker(f, MaxRepeatedMatches)
    \/ JoinWorkersOfFirstRun
    \/ IndexDefinition
    \/ DefinitionsDrained
    \/ IndexReference
    \/ ReferencesDrained
    \/ LinkReferenceResultsToRanges
    \/ EmitContains
    \/ End
    \/ IndexAgain

\* main has parsed and canonicalized the options and calls Indexer::index
\* on a project of three files
InitRepeated ==
    /\ Constructed
    /\ mpc = "indexing"
    /\ opts = [project_root |-> <<"/", "w", "p">>,
               output |-> Some(<<"/", "w", "p", "dump.json">>)]
    /\ walk = <<FileA, FileB, FileC>>
    /\ query = TypeScriptQuery

\* two runs of the indexer on one project
SpecRepeated == InitRepeated /\ [][NextRepeated]_vars

TypeOK ==
    /\ apc \in [Files -> {"idle", "matching", "sending", "done", "panicked"}]
    /\ ipc \in {"metadata", "documents", "analysis", "defs", "refs", "link",
                "contains", "end", "done", "error", "panicked"}
    /\ id = Len(out)
    /\ spc \in {"receiving", "flushed", "exited"}
    /\ mpc \in {"args", "indexing", "waiting", "finished"}
    /\ signal \in 0..1
    /\ ref_count.received <= ref_count.sent

\* =========================================================== FileEmitter
\* Calls of emit_vertex and emit_edge made on one FileEmitter before end().
MaxEmits == 3

\* FileEmitter::next_id: the counter after the call and the id returned
next_id_post_increment(n) == [id |-> n + 1, returned |-> n]

next_id(n) == [id |-> n + 1, returned |-> n + 1]

\* the callers of a FileEmitter other than the calls themselves
EmitterFrame == UNCHANGED <<avars, cvars, cachevars, ipc, project_id, ndocs, linked,
                            contained, sent_defs, ref_count, runvars>>

\* impl Emitter for FileEmitter, emit_vertex: next_id, entry_sender.send
emit_vertex ==
    /\ mpc = "indexing"
    /\ id < MaxEmits
    /\ \E label \in {"resultSet", "definitionResult"} :
          LET n == next_id(id)
              entry == Vertex(n.returned, label, <<>>)
          IN  /\ id' = n.id
              /\ out' = Append(out, entry)
              /\ entry_chan' = Append(entry_chan, entry)
              /\ last_op' = [op |-> "emit_vertex", returned |-> n.returned]
    /\ UNCHANGED <<entry_open, written, flushed, signal, spc, mpc>>
    /\ EmitterFrame

\* impl Emitter for FileEmitter, emit_edge: next_id, entry_sender.send
emit_edge ==
    /\ mpc = "indexing"
    /\ id < MaxEmits
    /\ \E outV \in 1..id, inV \in 1..id :
          LET n == next_id(id)
              entry == Edge1(n.returned, "next", outV, inV)
          IN  /\ id' = n.id
              /\ out' = Append(out, entry)
              /\ entry_chan' = Append(entry_chan, entry)
              /\ last_op' = [op |-> "emit_edge", returned |-> n.returned]
    /\ UNCHANGED <<entry_open, written, flushed, signal, spc, mpc>>
    /\ EmitterFrame

\* impl Emitter for FileEmitter, end: the entry sender is swapped out and
\* dropped; Indexer::index returns and main waits for the signal
end_without_drop ==
    /\ mpc = "indexing"
    /\ mpc' = "waiting"
    /\ last_op' = [op |-> "end"]
    /\ UNCHANGED <<evars, entry_chan, entry_open, written, flushed, signal, spc>>
    /\ EmitterFrame

end ==
    /\ mpc = "indexing"
    /\ entry_open' = FALSE
    /\ mpc' = "waiting"
    /\ last_op' = [op |-> "end"]
    /\ UNCHANGED <<evars, entry_chan, written, flushed, signal, spc>>
    /\ EmitterFrame

\* FileEmitter::run, one turn of `for entry in entry_receiver`: the entry is
\* serialized and written to the BufWriter, followed by a newline
run_write ==
    /\ spc = "receiving"
    /\ entry_chan # <<>>
    /\ written' = Append(written, Head(entry_chan))
    /\ entry_chan' = Tail(entry_chan)
    /\ UNCHANGED <<evars, entry_open, flushed, signal, spc, mpc, last_op>>
    /\ EmitterFrame

\* FileEmitter::run: the loop ends when the channel is empty and the sender
\* has been dropped; buf_writer.flush()
run_flush_when_empty ==
    /\ spc = "receiving"
    /\ entry_chan = <<>>
    /\ flushed' = TRUE
    /\ spc' = "flushed"
    /\ UNCHANGED <<evars, entry_chan, entry_open, written, signal, mpc, last_op>>
    /\ EmitterFrame

run_flush ==
    /\ spc = "receiving"
    /\ entry_chan = <<>>
    /\ ~entry_open
    /\ flushed' = TRUE
    /\ spc' = "flushed"
    /\ UNCHANGED <<evars, entry_chan, entry_open, written, signal, mpc, last_op>>
    /\ EmitterFrame

\* FileEmitter::run: signal_sender.send(()) and the thread ends
run_signal ==
    /\ spc = "flushed"
    /\ signal' = signal + 1
    /\ spc' = "exited"
    /\ UNCHANGED <<evars, entry_chan, entry_open, written, flushed, mpc, last_op>>
    /\ EmitterFrame

\* main: signal_receiver.recv() returns
recv ==
    /\ mpc = "waiting"
    /\ signal > 0
    /\ signal' = signal - 1
    /\ mpc' = "finished"
    /\ UNCHANGED <<evars, entry_chan, entry_open, written, flushed, spc, last_op>>
    /\ EmitterFrame

\* main with a FileEmitter: any sequence of emit calls, end(), recv(), next
\* to the sink thread spawned by FileEmitter::new
NextEmitter ==
    \/ emit_vertex
    \/ emit_edge
    \/ end
    \/ run_write
    \/ run_flush
    \/ run_signal
    \/ recv

SpecEmitter == Init /\ [][NextEmitter]_vars

\* the sink thread and the blocked recv() are scheduled fairly
FairSpecEmitter ==
    /\ SpecEmitter
    /\ WF_vars(run_write)
    /\ WF_vars(run_flush)
    /\ WF_vars(run_signal)
    /\ WF_vars(recv)

\* ================================================================ claims
Elems(q) == {q[i] : i \in DOMAIN q}
IsRangeVertex(e) == e.type = "vertex" /\ e.label = "range"
RangeVertices(o) == {i \in DOMAIN o : IsRangeVertex(o[i])}
IsItem(e, property) == e.type = "edge" /\ e.label = "item" /\ e.property = property

\* the vertex ids an edge record names
EdgeTargets(e) ==
    {e.outV}
    \cup (IF e.label \in {"contains", "item"} THEN Elems(e.inVs) ELSE {e.inV})
    \cup (IF e.label = "item" THEN {e.document} ELSE {})

\* C1: every emitted edge names only vertices emitted before it: outV, inV
\* or each of inVs, and the document of an item edge are ids of vertex
\* records with a smaller id than the edge.
C1_EdgesReferToEarlierVertices ==
    \A i \in DOMAIN out :
        /\ out[i].id = i
        /\ out[i].type = "edge" =>
              \A t \in EdgeTargets(out[i]) :
                  t \in 1..(i - 1) /\ out[t].type = "vertex"

\* a finished run with a reference of b.ts linked to a definition of a.ts
C1_Witness ==
    /\ ipc = "done"
    /\ \E i \in DOMAIN out :
          /\ IsItem(out[i], "reference")
          /\ \E v \in Elems(out[i].inVs) : out[v].location.file_path = FileB
    /\ \E i \in DOMAIN out : out[i].type = "edge" /\ out[i].label = "contains"
                             /\ out[i].outV = project_id

\* C2: at most one Range vertex is emitted for each (file_path, start_byte).
C2_OneRangePerOffset ==
    \A i, j \in RangeVertices(out) :
        (/\ out[i].location.file_path = out[j].location.file_path
         /\ out[i].location.range.start_byte = out[j].location.range.start_byte)
        => i = j

\* C3: indexing a resolved reference at an offset that already has a range
\* id emits no Range vertex and links the cached id; otherwise it emits
\* exactly one Range vertex for the reference and caches its id.
C3_Step ==
    (Len(ref_chan') < Len(ref_chan) /\ IsSome(last_op'.target) /\ ipc' # "panicked") =>
        LET r == Head(ref_chan)
            f == r.location.file_path
            offset == r.location.range.start_byte
            cached == get_range_id(f, offset)
            next_edge == out'[Len(out')]
        IN  /\ next_edge.type = "edge" /\ next_edge.label = "next"
            /\ IF IsSome(cached)
               THEN /\ RangeVertices(out') = RangeVertices(out)
                    /\ next_edge.outV = Unwrap(cached)
                    /\ ranges' = ranges
               ELSE /\ RangeVertices(out') = RangeVertices(out) \cup {Len(out) + 1}
                    /\ out'[Len(out) + 1].location = r.location
                    /\ next_edge.outV = Len(out) + 1
                    /\ ranges' = [ranges EXCEPT ![f] = Insert(@, offset, Len(out) + 1)]

C3_EnsureRangeReuses == [][C3_Step]_vars

\* a second resolved reference at an offset whose Range was emitted for an
\* earlier reference (no definition lies at that location)
C3_Witness ==
    /\ last_op.op = "index_reference"
    /\ IsSome(last_op.target)
    /\ ~last_op.fresh
    /\ last_op.r.location \notin DOMAIN def_infos
    /\ out[last_op.range_id].location = last_op.r.location

\* C4: every reference sent with a Scoped definition lies inside its scope.
C4_ScopedDefContainsReference ==
    \A r \in Elems(ref_chan) :
        (has_def(r) /\ Unwrap(r.def).kind.tag = "Scoped") =>
            /\ Unwrap(r.def).kind.scope.start_byte <= r.location.range.start_byte
            /\ Unwrap(r.def).kind.scope.end_byte >= r.location.range.end_byte

\* a sent reference resolved to a Scoped definition whose scope is a proper
\* part of the file, next to a reference left unresolved
C4_Witness ==
    /\ \E r \in Elems(ref_chan) :
          /\ has_def(r)
          /\ Unwrap(r.def).kind.tag = "Scoped"
          /\ Unwrap(r.def).kind.scope.start_byte > 0
    /\ \E r \in Elems(ref_chan) : ~has_def(r)

\* C5: no reference is sent with a definition whose range is its own range.
C5_NoSelfReference ==
    \A r \in Elems(ref_chan) :
        has_def(r) => Unwrap(r.def).location.range # r.location.range

\* the definitions of a file sent so far
SentDefsOf(f) == {d \in Elems(sent_defs) : d.location.file_path = f}

\* the Scoped definitions of the reference's file and name whose scope contains it
ScopedCandidates(r) ==
    {d \in SentDefsOf(r.location.file_path) :
        /\ d.node_name = r.node_name
        /\ d.kind.tag = "Scoped"
        /\ Contain(d.kind.scope, r.location.range)}

\* C6: with several Scoped definitions of the name in scope (and no Exported
\* one), a sent reference is resolved to one whose scope has the largest
\* start_byte among them.
C6_InnermostScopeWins ==
    \A r \in Elems(ref_chan) :
        (/\ Cardinality(ScopedCandidates(r)) >= 2
         /\ \A d \in SentDefsOf(r.location.file_path) :
               d.node_name = r.node_name => d.kind.tag = "Scoped")
        => /\ has_def(r)
           /\ Unwrap(r.def) \in ScopedCandidates(r)
           /\ \A d \in ScopedCandidates(r) :
                 d.kind.scope.start_byte <= Unwrap(r.def).kind.scope.start_byte

\* C7: a sent reference inside the scope of a Scoped definition of its name
\* is resolved to a Scoped definition even when the file also has an
\* Exported definition of that name.
C7_ScopedShadowsExported ==
    \A r \in Elems(ref_chan) :
        (/\ ScopedCandidates(r) # {}
         /\ \E d \in SentDefsOf(r.location.file_path) :
               d.node_name = r.node_name /\ d.kind.tag = "Exported")
        => /\ has_def(r)
           /\ Unwrap(r.def).kind.tag = "Scoped"

\* a definition counts as indexed once the cache holds its DefinitionInfo
\* and, when Exported, its name
IsIndexed(d) ==
    /\ d.location \in DOMAIN def_infos
    /\ d.kind.tag = "Exported" => d.node_name \in DOMAIN exported_defs

\* C8: when a reference is taken from the reference channel, every worker
\* has returned, the definition channel is empty and every definition sent
\* has been indexed.
C8_Step ==
    Len(ref_chan') < Len(ref_chan) =>
        /\ \A f \in Project : apc[f] = "done"
        /\ def_chan = <<>>
        /\ \A d \in Elems(sent_defs) : IsIndexed(d)
        /\ Cardinality({i \in DOMAIN out : out[i].type = "vertex" /\ out[i].label = "resultSet"})
             = Len(sent_defs)

C8_DefinitionsBeforeReferences == [][C8_Step]_vars

\* a reference has been taken after definitions of both files were sent
C8_Witness ==
    /\ last_op.op = "index_reference"
    /\ SentDefsOf(FileA) # {}
    /\ SentDefsOf(FileB) # {}

\* C9: an entry of the exported-name table never changes once written.
C9_Step ==
    \A n \in DOMAIN exported_defs :
        n \in DOMAIN exported_defs' /\ exported_defs'[n] = exported_defs[n]

C9_FirstWriteWins == [][C9_Step]_vars

\* the document id of the file a Range vertex lies in
DocumentOfRange(v) == documents[out[v].location.file_path].id

\* C10: every ref_item edge carries the id of the document that contains
\* each range of its inVs.
C10_RefItemGroupedByReferrer ==
    \A i \in DOMAIN out :
        IsItem(out[i], "reference") =>
            \A v \in Elems(out[i].inVs) : DocumentOfRange(v) = out[i].document

\* the records of the dump with the given type and label
Labelled(type, label) == {i \in DOMAIN out : out[i].type = type /\ out[i].label = label}

\* C11: at the end of a run there are exactly as many resultSet,
\* definitionResult and referenceResult vertices as definitions were drained,
\* and every resultSet has exactly one next edge coming from a definition's
\* range, one textDocument/definition edge and one textDocument/references edge.
C11_OneResultTriplePerDefinition ==
    ipc = "done" =>
        /\ Cardinality(Labelled("vertex", "resultSet")) = Len(sent_defs)
        /\ Cardinality(Labelled("vertex", "definitionResult")) = Len(sent_defs)
        /\ Cardinality(Labelled("vertex", "referenceResult")) = Len(sent_defs)
        /\ \A rs \in Labelled("vertex", "resultSet") :
              /\ Cardinality({e \in Labelled("edge", "next") :
                                 /\ out[e].inV = rs
                                 /\ out[out[e].outV].location \in
                                        {d.location : d \in Elems(sent_defs)}}) = 1
              /\ Cardinality({e \in Labelled("edge", "textDocument/definition") :
                                 out[e].outV = rs}) = 1
              /\ Cardinality({e \in Labelled("edge", "textDocument/references") :
                                 out[e].outV = rs}) = 1

\* the Range vertices emitted for ranges located in file f
RangesOfFile(f) == {i \in RangeVertices(out) : out[i].location.file_path = f}

\* the contains edges that leave a document vertex
DocumentContains ==
    {e \in Labelled("edge", "contains") : out[out[e].outV].label = "document"}

\* C12: every id of a document-level contains edge is a Range vertex of a
\* range located in that document's file, emitted after the document vertex
\* and before the edge; once the contains edges are emitted, a document
\* without ranges has none.
C12_ContainsOnlyOwnRanges ==
    /\ \A e \in DocumentContains :
          /\ out[e].inVs # <<>>
          /\ \A v \in Elems(out[e].inVs) :
                /\ out[e].outV < v /\ v < e
                /\ IsRangeVertex(out[v])
                /\ out[v].location.file_path = out[out[e].outV].data
    /\ ipc \in {"end", "done"} =>
          \A f \in DOMAIN documents :
              RangesOfFile(f) = {} =>
                  \A e \in DocumentContains : out[e].outV # documents[f].id

\* a finished run where b.ts holds a reference range next to a definition
\* range and a.ts holds no range
C12_Witness ==
    /\ ipc = "done"
    /\ RangesOfFile(FileA) = {}
    /\ \E e \in DocumentContains :
          /\ out[e].outV = documents[FileB].id
          /\ Len(out[e].inVs) >= 2
          /\ out[e].inVs[1] \notin Elems(documents[FileB].definition_range_ids)

\* the contains edges that leave the project vertex
ProjectContains == {e \in Labelled("edge", "contains") : out[e].outV = project_id}

C14_Step ==
    (/\ Len(ref_chan') < Len(ref_chan)
     /\ ~has_def(Head(ref_chan))
     /\ Head(ref_chan).node_name \notin DOMAIN exported_defs)
    => /\ UNCHANGED <<id, out, ranges, documents, def_infos, exported_defs>>
       /\ ipc' = ipc

C14_UnresolvedReferenceIsDropped == [][C14_Step]_vars

\* an unresolved reference has been dropped while the cache held an exported
\* name and ranges of both kinds had been emitted
C14_Witness ==
    /\ last_op.op = "index_reference"
    /\ ~IsSome(last_op.target)
    /\ DOMAIN exported_defs # {}
    /\ \E f \in DOMAIN documents : documents[f].reference_range_ids # <<>>

\* C15: a reference received without a definition whose name is exported by
\* another file gets a next edge from its range to a resultSet that carries,
\* by a moniker edge, a moniker of kind "exported" with the identifier
\* "<basename of the defining file>:<name>".
C15_CrossFileExport ==
    (/\ last_op.op = "index_reference"
     /\ ~has_def(last_op.r)
     /\ IsSome(last_op.target)
     /\ Unwrap(last_op.target).location.file_path # last_op.r.location.file_path
     /\ ipc # "panicked")
    => LET r == last_op.r
           def == Unwrap(last_op.target)
           next_edge == out[Len(out)]
       IN  /\ next_edge.type = "edge" /\ next_edge.label = "next"
           /\ out[next_edge.outV].location = r.location
           /\ out[next_edge.inV].label = "resultSet"
           /\ \E e \in Labelled("edge", "moniker") :
                 /\ out[e].outV = next_edge.inV
                 /\ out[out[e].inV].label = "moniker"
                 /\ out[out[e].inV].data.kind = "exported"
                 /\ out[out[e].inV].data.identifier =
                        <<file_name(def.location), ":", r.node_name>>

\* ------------------------------------------------- navigation of the dump
\* Elements::find_range_by_id: the span of the Range vertex with that id
find_range_by_id(o, target_id) ==
    LET found == {i \in DOMAIN o : IsRangeVertex(o[i]) /\ o[i].id = target_id}
    IN  IF found = {} THEN None ELSE Some(o[SetMin(found)].data)

\* Elements::find_definition_ranges_by_result_id over the records o[1..k]:
\* the ranges of the inVs of every item edge that leaves the result id
RECURSIVE find_definition_ranges_by_result_id(_, _, _)
find_definition_ranges_by_result_id(o, result_id, k) ==
    IF k = 0 THEN <<>>
    ELSE LET before == find_definition_ranges_by_result_id(o, result_id, k - 1)
             e == o[k]
         IN  IF e.type = "edge" /\ e.label = "item" /\ e.outV = result_id
             THEN LET found == [i \in 1..Len(e.inVs) |-> find_range_by_id(o, e.inVs[i])]
                      some == SelectSeq(found, IsSome)
                  IN  before \o [i \in 1..Len(some) |-> Unwrap(some[i])]
             ELSE before

\* Elements::find_definition_ranges: the first loop follows the
\* textDocument/definition edges that leave the id, the second loop the next
\* edges, each over the records o[1..k]
RECURSIVE FollowEdges(_, _, _, _)
FollowEdges(o, from, label, k) ==
    IF k = 0 THEN <<>>
    ELSE LET before == FollowEdges(o, from, label, k - 1)
             e == o[k]
         IN  IF e.type = "edge" /\ e.label = label /\ e.outV = from
             THEN before \o
                  (IF label = "textDocument/definition"
                   THEN find_definition_ranges_by_result_id(o, e.inV, Len(o))
                   ELSE FollowEdges(o, e.inV, "textDocument/definition", Len(o)) \o
                        FollowEdges(o, e.inV, "next", Len(o)))
             ELSE before

find_definition_ranges(o, from) ==
    FollowEdges(o, from, "textDocument/definition", Len(o)) \o
    FollowEdges(o, from, "next", Len(o))

\* the span a Range vertex carries for a tree-sitter range
SpanOf(r) == [start |-> r.start_byte, end |-> r.end_byte]

\* C16: go-to-definition from the range of a reference just linked to a
\* definition yields first the range of that definition, and from the range
\* of a definition just indexed yields first that range itself.
C16_GoToDefinition ==
    /\ (last_op.op = "index_reference" /\ IsSome(last_op.target) /\ ipc # "panicked") =>
          LET found == find_definition_ranges(out, last_op.range_id)
          IN  /\ found # <<>>
              /\ found[1] = SpanOf(Unwrap(last_op.target).location.range)
    /\ (last_op.op = "index_definition" /\ ipc # "panicked") =>
          LET found == find_definition_ranges(out, Len(out) - 9)
          IN  /\ found # <<>>
              /\ found[1] = SpanOf(last_op.def.location.range)

\* C17: the n-th call of emit_vertex or emit_edge returns id n, counted from
\* 1 over both kinds of call, the entry handed to the sink carries that id,
\* and the sink thread writes the entries in increasing id order without gap.
C17_SerialIds ==
    /\ id = Len(out)
    /\ \A i \in DOMAIN out : out[i].id = i
    /\ last_op.op \in {"emit_vertex", "emit_edge"} =>
          /\ last_op.returned = Len(out)
          /\ out[Len(out)].id = last_op.returned
    /\ \A i \in DOMAIN written : written[i].id = i
    /\ \A i \in DOMAIN entry_chan : entry_chan[i].id = Len(written) + i

\* the sink thread has written two entries of both kinds while the caller
\* went on to hand over a third one
C17_Witness ==
    /\ Len(written) = 2
    /\ \E i, j \in DOMAIN written : written[i].type = "vertex" /\ written[j].type = "edge"
    /\ entry_chan # <<>>
    /\ mpc = "indexing"

C19_SignalStep ==
    /\ signal' > signal => (signal = 0 /\ spc = "flushed" /\ spc' = "exited" /\ ~entry_open)
    /\ spc = "exited" => spc' = "exited"

C19_SinkTerminates ==
    /\ (mpc = "waiting") ~> (mpc = "finished")
    /\ [][C19_SignalStep]_vars
    /\ [](signal <= 1)

\* main has received the signal of a run that emitted entries
C19_Witness ==
    /\ mpc = "finished"
    /\ spc = "exited"
    /\ signal = 0
    /\ written # <<>>

\* the orchestrator has left both receive loops of emit_definitions
LoopsLeft == ipc \in {"link", "contains", "end", "done"}

\* C20: a worker that has something to send can always send it; once the
\* parallel pass has ended every worker has returned and dropped its senders;
\* under fair scheduling both receive loops end, and then every definition
\* and every reference sent has been received exactly once.
C20_FanOutTerminates ==
    /\ [](\A f \in Files : apc[f] = "sending" => ENABLED SendReference(f))
    /\ [](ipc \notin {"metadata", "documents", "analysis"} =>
              \A f \in Project : apc[f] = "done")
    /\ (ipc = "analysis") ~> LoopsLeft
    /\ [](LoopsLeft =>
              /\ def_chan = <<>>
              /\ ref_chan = <<>>
              /\ Cardinality(Labelled("vertex", "resultSet")) = Len(sent_defs)
              /\ ref_count.received = ref_count.sent)

\* both loops have ended after a definition and a reference went through
\* the channels
C20_Witness ==
    /\ LoopsLeft
    /\ sent_defs # <<>>
    /\ ref_count.received >= 1

\* the ids of the vertex records of o with the given label
VerticesLabelled(o, label) ==
    {i \in DOMAIN o : o[i].type = "vertex" /\ o[i].label = label}

\* C28: every item edge carries the id of a document and a property that is
\* "definitions", "references" or "": the item edge of a definitionResult
\* has "", the def_item of a referenceResult (the record right after its
\* textDocument/references edge) has "definitions", and each ref_item after
\* it has "references".
C28_ItemProperty ==
    \A i \in DOMAIN out :
        (out[i].type = "edge" /\ out[i].label = "item") =>
            /\ out[i].document \in VerticesLabelled(out, "document")
            /\ out[i].property \in {"definitions", "references", ""}
            /\ out[i].outV \in VerticesLabelled(out, "definitionResult")
                   => out[i].property = ""
            /\ (out[i].outV \in VerticesLabelled(out, "referenceResult") /\ i = out[i].outV + 2)
                   => out[i].property = "definitions"
            /\ (out[i].outV \in VerticesLabelled(out, "referenceResult") /\ i > out[i].outV + 2)
                   => out[i].property = "references"

\* C24: when the query of the language fails to compile, Indexer::index
\* returns an error value instead of panicking, and it does so before any
\* file is read, parsed or analyzed: no worker has started, no match was
\* handled, and no definition or reference was sent or indexed.
C24_QueryErrorBeforeAnalysis ==
    last_op.op = "query_for_language" =>
        /\ ipc = "error"
        /\ \A f \in Files : apc[f] = "idle" /\ nmatched[f] = 0 /\ refs[f] = <<>>
        /\ sent_defs = <<>> /\ def_chan = <<>> /\ ref_chan = <<>>
        /\ ref_count = [sent |-> 0, received |-> 0]
        /\ def_infos = <<>> /\ exported_defs = <<>>
        /\ RangeVertices(out) = {}

\* index has returned the query error for a project of two files
C24_Witness ==
    /\ ipc = "error"
    /\ last_op.op = "query_for_language"
    /\ ndocs = Len(file_paths)
    /\ Len(file_paths) = 2

\* C25: at the moment index returns the query error nothing has been handed
\* to the emitter: the output holds no vertex and no edge.
C25_QueryErrorBeforeEmission ==
    (ipc = "error" /\ last_op.op = "query_for_language") => out = <<>>

\* C26: a file that cannot be read or parsed makes index return an error
\* value, not panic in a worker, and no definition or reference is indexed.
C26_ParseFailureIsReturned ==
    last_op.op = "parse_files" =>
        /\ ipc = "error"
        /\ def_infos = <<>>
        /\ ref_count.received = 0

\* the document vertices emitted for path f
DocumentVertices(f) ==
    {i \in VerticesLabelled(out, "document") : out[i].data = f}

\* C29: every path of the walk gets exactly one document vertex, emitted and
\* registered in the cache before any file is analyzed; so every definition
\* taken from the definition channel names a file whose document is cached,
\* and the document lookup of index_definition never fails.
C29_DocumentsBeforeAnalysis ==
    /\ \A i \in DOMAIN file_paths : Cardinality(DocumentVertices(file_paths[i])) <= 1
    /\ (\E f \in Files : apc[f] # "idle") =>
          \A i \in DOMAIN file_paths :
              /\ Cardinality(DocumentVertices(file_paths[i])) = 1
              /\ file_paths[i] \in DOMAIN documents
              /\ documents[file_paths[i]].id \in DocumentVertices(file_paths[i])
    /\ \A d \in Elems(def_chan) : d.location.file_path \in DOMAIN documents
    /\ last_op.op = "index_definition" => ipc # "panicked"

\* index_definition has looked up the document of a definition of the file
\* that comes last in the walk
C29_Witness ==
    /\ last_op.op = "index_definition"
    /\ last_op.def.location.file_path = file_paths[Len(file_paths)]
    /\ ipc = "defs"

\* the definitions and the references of file f that wait on the channels
Last(q) == q[Len(q)]
DefsOnChan(f) == SelectSeq(def_chan, LAMBDA d : d.location.file_path = f)
RefsOnChan(f) == SelectSeq(ref_chan, LAMBDA r : r.location.file_path = f)

\* a step taken while the worker of file f may be running
C30_Step(f) ==
    \* a definition is sent at the step that matches it, exactly once
    /\ (defs'[f] # defs[f] /\ apc'[f] = "matching") =>
          /\ Last(def_chan').location.file_path = f
          /\ DefsOnChan(f)' = Append(DefsOnChan(f), Last(def_chan'))
          /\ \E n \in Names : defs'[f][n] = Append(defs[f][n], Last(def_chan'))
    \* definitions are sent by nothing else, and before any reference of f
    /\ (ipc = "analysis" /\ DefsOnChan(f)' # DefsOnChan(f)) =>
          /\ apc[f] = "matching" /\ apc'[f] = "matching"
          /\ defs'[f] # defs[f]
          /\ RefsOnChan(f) = <<>> /\ RefsOnChan(f)' = <<>>
    \* a matched reference is kept until the traversal is over
    /\ (apc[f] = "matching" /\ refs'[f] # refs[f] /\ apc'[f] = "matching") =>
          /\ Len(refs'[f]) = Len(refs[f]) + 1
          /\ RefsOnChan(f)' = <<>>
    \* the end of the traversal keeps every reference, resolved or not
    /\ (apc[f] = "matching" /\ apc'[f] # "matching") =>
          /\ Len(refs'[f]) = Len(refs[f])
          /\ \A i \in DOMAIN refs[f] : refs'[f][i].location = refs[f][i].location
          /\ RefsOnChan(f)' = <<>>
          /\ apc'[f] = "done" <=> refs[f] = <<>>
    \* and then each one is sent exactly once, in order
    /\ (ipc = "analysis" /\ RefsOnChan(f)' # RefsOnChan(f)) =>
          /\ apc[f] = "sending" /\ refs[f] # <<>>
          /\ RefsOnChan(f)' = Append(RefsOnChan(f), Head(refs[f]))
          /\ refs'[f] = Tail(refs[f])
    /\ (apc[f] = "sending" /\ refs'[f] # refs[f]) =>
          RefsOnChan(f)' = Append(RefsOnChan(f), Head(refs[f]))
    /\ (apc[f] = "sending" /\ apc'[f] # "sending") =>
          apc'[f] = "done" /\ refs'[f] = <<>>

\* C30: run_analysis sends every matched definition exactly once on the
\* definition channel, at the moment it is matched, and every matched
\* reference exactly once on the reference channel, resolved or not, only
\* after the whole traversal; within one file every definition send comes
\* before every reference send.
C30_SendOrder == [][\A f \in Files : C30_Step(f)]_vars

\* a worker has returned after sending a definition and then two
\* references, one of them unresolved
C30_Witness ==
    \E f \in Files :
        /\ apc[f] = "done"
        /\ ipc = "analysis"
        /\ DefsOnChan(f) # <<>>
        /\ Len(RefsOnChan(f)) = 2
        /\ \E i \in 1..2 : ~has_def(RefsOnChan(f)[i])

\* d was built by definition_from for a definition.scoped match that had no
\* enclosing scope
HasZeroScope(d) == d.kind = DefinitionKindScoped(ZeroRange)

\* the reference r, if resolved to the definition held in the option o, is
\* empty and starts at byte 0
OnlyEmptyAtZero(r, o) ==
    (IsSome(o) /\ HasZeroScope(Unwrap(o))) =>
        r.location.range = ZeroRange

\* the step that matches a definition.scoped capture in file f while no
\* cached scope encloses it
C22_Step(f) ==
    (/\ apc[f] = "matching"
     /\ Len(DefsOnChan(f)') > Len(DefsOnChan(f))
     /\ Last(def_chan').kind.tag = "Scoped"
     /\ find_enclosing_scope(scopes[f], Last(def_chan').location.range) = None) =>
        /\ HasZeroScope(Last(def_chan'))
        /\ apc'[f] = "matching"
        /\ DefsOnChan(f)' = Append(DefsOnChan(f), Last(def_chan'))

\* C22: a definition.scoped match without an enclosing scope does not stop
\* the analysis: the definition is built with the zero scope (0, 0) and sent,
\* the remaining matches are processed, and no reference with a non-empty
\* range or a start after byte 0 is ever resolved to it, neither by the
\* analyzer nor through the exported table of the cache.
C22_ZeroScopeIsInert ==
    /\ [][\A f \in Files : C22_Step(f)]_vars
    /\ [](\A f \in Files : \A i \in DOMAIN refs[f] :
              OnlyEmptyAtZero(refs[f][i], refs[f][i].def))
    /\ [](\A i \in DOMAIN ref_chan : OnlyEmptyAtZero(ref_chan[i], ref_chan[i].def))
    /\ [](\A n \in DOMAIN exported_defs : ~HasZeroScope(exported_defs[n]))
    /\ [](last_op.op = "index_reference" => OnlyEmptyAtZero(last_op.r, last_op.target))

\* a reference of b.ts follows, at a later byte, a same-named definition of
\* b.ts that has the zero scope; it left the analyzer unresolved and was
\* resolved through the exported table to a definition of a.ts
C22_Witness ==
    /\ last_op.op = "index_reference"
    /\ IsSome(last_op.target)
    /\ Unwrap(last_op.target).location.file_path # last_op.r.location.file_path
    /\ \E i \in DOMAIN sent_defs :
          /\ HasZeroScope(sent_defs[i])
          /\ sent_defs[i].node_name = last_op.r.node_name
          /\ sent_defs[i].location.file_path = last_op.r.location.file_path
          /\ sent_defs[i].location.range.start_byte < last_op.r.location.range.start_byte

\* the step handles one match of file f and leaves no record of it: no
\* definition, reference, scope or comment is added and nothing is sent
HandledWithoutRecord(f) ==
    /\ nmatched'[f] = nmatched[f] + 1
    /\ \A n \in Names : Len(defs'[f][n]) <= Len(defs[f][n])
    /\ Len(refs'[f]) <= Len(refs[f])
    /\ Len(scopes'[f]) <= Len(scopes[f])
    /\ last_comment'[f] \in {last_comment[f], None}
    /\ UNCHANGED <<def_chan, ref_chan>>

C27_OutputIsCanonical ==
    last_op.op = "canonicalize_paths" =>
        /\ IsSome(opts.output)
        /\ is_absolute(Unwrap(opts.output))
        /\ \A i \in DOMAIN Unwrap(opts.output) : Unwrap(opts.output)[i] \notin {".", ".."}
        /\ IsSome(last_op.given.output) =>
              Unwrap(opts.output) = canonicalize(Unwrap(last_op.given.output))
        /\ ~IsSome(last_op.given.output) =>
              Unwrap(opts.output) =
                  Append(canonicalize(last_op.given.project_root), "dump.json")

\* C21: two runs of the indexer on the same input produce the same output
\* up to the renumbering of ids and the order of records, however the
\* workers interleave and in whatever order the definitions arrive: the
\* same vertices, and every range linked to the resultSet of the same
\* definition in both runs.
C21_RunsAgree ==
    (ipc = "done" /\ IsSome(first_run) /\ Unwrap(first_run).run = 2) =>
        Structure(out) = Unwrap(first_run).structure

\* ------------------------------------------------------------------ C31
\* C31: a reference is sent with def = None only if its file has no
\* definition of its name that is Exported, or Scoped with a scope containing
\* the reference; this holds also when every such definition was matched
\* after the reference, because the second pass looks again.
VisibleDefsOf(r) ==
    {d \in SentDefsOf(r.location.file_path) :
        d.node_name = r.node_name /\ is_in_scope(d, r.location.range)}

C31_ForwardReferencesResolved ==
    \A i \in 1..Len(ref_chan) :
        ~has_def(ref_chan[i]) => VisibleDefsOf(ref_chan[i]) = {}

\* the reference was the first match, a comment the second and the definition
\* that took the comment the third: only the second pass can have linked them
C31_Witness ==
    /\ nmatched[FileB] = 3
    /\ \E i \in 1..Len(ref_chan) :
          /\ has_def(ref_chan[i])
          /\ Unwrap(ref_chan[i].def).comment = Some(comment_from(FileB, 2))

\* ------------------------------------------------------------------ C32
\* the text of a comment node, as opposed to the line_of fallback
IsCommentText(c) == IsSome(c) /\ Unwrap(c)[1] = "/"

\* C32: the pending comment is one slot used at most once.  A comment match
\* overwrites the slot and sends nothing; a definition match takes what the
\* slot holds as its comment and empties it, so no earlier definition carries
\* that comment; a definition matched with an empty slot gets the line_of
\* fallback, not the text of a comment.
C32_Step(f) ==
    LET slot == last_comment[f]
    IN  /\ (IsSome(last_comment'[f]) /\ last_comment'[f] # slot) =>
              /\ sent_defs' = sent_defs
              /\ \A e \in Elems(sent_defs) : e.comment # last_comment'[f]
        /\ (Len(sent_defs') > Len(sent_defs) /\ Last(sent_defs').location.file_path = f) =>
              LET d == Last(sent_defs')
              IN  /\ last_comment'[f] = None
                  /\ IsSome(slot) =>
                        /\ d.comment = Some(Unwrap(slot))
                        /\ \A e \in Elems(sent_defs) : e.comment # d.comment
                  /\ ~IsSome(slot) =>
                        /\ d.comment = Some(line_of(f, d.location.range))
                        /\ ~IsCommentText(d.comment)

C32_CommentSlot == [][\A f \in Files : C32_Step(f)]_vars

\* a comment, the definition that took it, and a further definition that
\* found the slot empty
C32_Witness ==
    /\ nmatched[FileB] = 3
    /\ Len(sent_defs) = 2
    /\ IsCommentText(sent_defs[1].comment)
    /\ ~IsCommentText(sent_defs[2].comment)
    /\ last_comment[FileB] = None

\* ------------------------------------------------------------------ C33
\* the bytes of f from byte p up to the end of p's line: the next newline,
\* or the end of the file when no newline follows
TextToEndOfLine(f, p) ==
    LET nl == {i \in p..(MaxByte - 1) : FileContent(f)[i] = "\n"}
        end_byte == IF nl = {} THEN MaxByte ELSE SetMin(nl)
    IN  node_text_of(f, [start_byte |-> p, end_byte |-> end_byte])

\* C33: the hover value of a definition that had no pending comment is the
\* node kind, a space and the text from the node's start byte to the end of
\* its line, and that text is not empty.
C33_HoverOfUndocumented ==
    \A i \in VerticesLabelled(out, "hoverResult") :
        ~IsCommentText(out[i].data.value) =>
            LET loc == out[i - 3].location
                text == TextToEndOfLine(loc.file_path, loc.range.start_byte)
            IN  /\ text # <<>>
                /\ out[i].data.value = Some(<<"identifier", " ">> \o text)

\* ------------------------------------------------------------------ C35
\* the scope nodes of one syntax tree: any two are nested or disjoint
Nested(scs) ==
    \A i, j \in 1..Len(scs) :
        \/ Contain(scs[i], scs[j])
        \/ Contain(scs[j], scs[i])
        \/ scs[i].end_byte <= scs[j].start_byte
        \/ scs[j].end_byte <= scs[i].start_byte

\* a scope is recorded before every scope it properly contains
OuterBeforeInner(scs) ==
    \A i, j \in 1..Len(scs) :
        (Contain(scs[i], scs[j]) /\ scs[i] # scs[j]) => i < j

\* C35: with the scopes of a file recorded outer before inner, the scope given
\* to a definition.scoped match is a recorded scope that contains the
\* definition's range and no recorded containing scope starts later (nor ends
\* earlier); the fallback range is used only if no recorded scope contains it.
C35_Step(f) ==
    (/\ Len(sent_defs') > Len(sent_defs)
     /\ Last(sent_defs').location.file_path = f
     /\ Last(sent_defs').kind.tag = "Scoped"
     /\ Nested(scopes[f])
     /\ OuterBeforeInner(scopes[f])) =>
        LET d == Last(sent_defs')
            containing == {s \in Elems(scopes[f]) : Contain(s, d.location.range)}
        IN  IF containing = {}
            THEN d.kind.scope = ZeroRange
            ELSE /\ d.kind.scope \in containing
                 /\ \A s \in containing :
                       /\ s.start_byte <= d.kind.scope.start_byte
                       /\ s.end_byte >= d.kind.scope.end_byte

C35_InnermostEnclosingScope == [][\A f \in Files : C35_Step(f)]_vars

\* two recorded scopes contain the definition and the inner one was assigned
C35_Witness ==
    /\ scopes[FileB] = << [start_byte |-> 0, end_byte |-> 2],
                          [start_byte |-> 1, end_byte |-> 2] >>
    /\ \E i \in 1..Len(sent_defs) :
          /\ sent_defs[i].location.range = NodeRange(1)
          /\ sent_defs[i].kind = DefinitionKindScoped([start_byte |-> 1, end_byte |-> 2])

\* ------------------------------------------------------------------ C36
\* the next edges that leave vertex v
NextEdgesOf(v) == {e \in Labelled("edge", "next") : out[e].outV = v}

\* C36: every Range vertex has at most one outgoing next edge.
C36_OneNextPerRange ==
    \A v \in RangeVertices(out) : Cardinality(NextEdgesOf(v)) <= 1

\* ------------------------------------------------------------------ C37
DuplicateFree(q) == \A i, j \in DOMAIN q : q[i] = q[j] => i = j

\* C37: no range id occurs twice in the inVs of a document's contains edge
\* nor in the inVs of a ref_item edge, and the reference and definition range
\* ids of a document, concatenated, hold no id twice.
C37_NoDuplicateRangeIds ==
    /\ \A e \in DocumentContains : DuplicateFree(out[e].inVs)
    /\ \A i \in DOMAIN out :
          IsItem(out[i], serde_tag("Reference")) => DuplicateFree(out[i].inVs)
    /\ \A f \in DOMAIN documents :
          DuplicateFree(documents[f].reference_range_ids \o documents[f].definition_range_ids)

\* ------------------------------------------------------------------ C38
\* the document-level contains edges that list vertex v
ContainsEdgesOf(v) == {e \in DocumentContains : v \in Elems(out[e].inVs)}

\* C38: once the contains edges are written, every Range vertex of the dump
\* is listed by the contains edge of exactly one document, the document of
\* the file the range lies in.
C38_EveryRangeContained ==
    ipc \in {"end", "done"} =>
        \A v \in RangeVertices(out) :
            /\ Cardinality(ContainsEdgesOf(v)) = 1
            /\ \A e \in ContainsEdgesOf(v) : out[e].outV = DocumentOfRange(v)

\* a finished run with the Range of a definition in a.ts and a Range emitted
\* for a reference in b.ts
C38_Witness ==
    /\ ipc = "done"
    /\ \E v \in RangesOfFile(FileA) : v \in Elems(documents[FileA].definition_range_ids)
    /\ \E v \in RangesOfFile(FileB) :
          /\ v \in Elems(documents[FileB].reference_range_ids)
          /\ v \notin Elems(documents[FileB].definition_range_ids)

\* ------------------------------------------------------------------ C39
\* the definition index_reference links r to: its own, or the exported
\* definition of its name
TargetOf(r) == IF has_def(r) THEN r.def ELSE defs_with_name(r.node_name)

\* C39: the lookups of index_reference_to_definition never fail.  Indexing
\* a reference never panics, and while references are taken from the channel
\* every waiting reference with a local or exported definition finds a
\* DefinitionInfo at the definition's location and a DocumentInfo for the
\* definition's file and for its own.
C39_LookupsSucceed ==
    /\ ~(ipc = "panicked" /\ last_op.op = "index_reference")
    /\ ipc = "refs" =>
          \A r \in Elems(ref_chan) :
              IsSome(TargetOf(r)) =>
                  /\ Unwrap(TargetOf(r)).location \in DOMAIN def_infos
                  /\ Unwrap(TargetOf(r)).location.file_path \in DOMAIN documents
                  /\ r.location.file_path \in DOMAIN documents

\* a reference of b.ts sent without a definition was linked to the exported
\* definition of a.ts
C39_Witness ==
    /\ last_op.op = "index_reference"
    /\ ~has_def(last_op.r)
    /\ IsSome(last_op.target)
    /\ last_op.r.location.file_path = FileB
    /\ Unwrap(last_op.target).location.file_path = FileA
    /\ ipc = "refs"

\* ------------------------------------------------------------------ C34
\* the source of pattern i: from its start byte to the start byte of the
\* next pattern, or to the end of the source
PatternSource(q, i) ==
    SubSeq(q.source, q.start_bytes[i] + 1,
           IF i < Len(q.start_bytes) THEN q.start_bytes[i + 1] ELSE Len(q.source))

\* the identifier after the first "@" of s, cut at the first white space,
\* ")" or newline, or at the end of s
FirstCaptureOf(s) ==
    LET at == SetMin({i \in 1..Len(s) : s[i] = "@"})
        cut == {i \in (at + 1)..Len(s) : s[i] \in {" ", "\t", "\n", ")"}}
    IN  SubSeq(s, at + 1, IF cut = {} THEN Len(s) ELSE SetMin(cut) - 1)

\* C34: get_capture_names returns, for every query source whose patterns
\* each have a capture, exactly pattern_count names in pattern order, the
\* i-th being the first capture name of the source of pattern i.
C34_CaptureNames ==
    last_op.op = "get_capture_names" =>
        /\ ~last_op.result.panicked
        /\ Len(last_op.result.patterns) = Len(query.start_bytes)
        /\ \A i \in 1..Len(query.start_bytes) :
              last_op.result.patterns[i] = FirstCaptureOf(PatternSource(query, i))
=============================================================================
